---- MODULE Spec2Model ----
(***************************************************************************)
(* Model of the Leise bot (src/bot.py): the argument parser               *)
(* parse_arguments, the create command send_custom_message and the edit   *)
(* command edit_message, with the platform (channel lookup, message       *)
(* fetch, send, edit) as nondeterministic collaborators.                  *)
(*                                                                         *)
(* A Python str is a sequence of one-character strings.  A Python value   *)
(* that may be None is None == <<>> or Some(v) == <<v>>.  A dict is a      *)
(* function whose domain is the set of its keys.                           *)
(***************************************************************************)
EXTENDS Integers, Sequences, FiniteSets, TLC

VARIABLES messages, inv, hist, lastWriter

vars == <<messages, inv, hist, lastWriter>>

----------------------------------------------------------------------------
(* Python values *)

None == <<>>

Some(v) == <<v>>

\* Python truthiness of an optional str: neither None nor ''.
Truthy(o) == o /= None /\ o[1] /= <<>>

\* dict.get(key): the value, or None when the key is absent.
Get(d, k) == IF k \in DOMAIN d THEN Some(d[k]) ELSE None

EmptyDict == [k \in {} |-> <<>>]

\* d[key] = value on a dict (a later assignment replaces an earlier one).
Put(d, k, v) == [x \in (DOMAIN d) \cup {k} |-> IF x = k THEN v ELSE d[x]]

----------------------------------------------------------------------------
(* Characters and the strings of the source *)

DQ == "\""

SQ == "'"

BS == "\\"

NL == "\n"

SP == " "

EQ == "="

Whitespace == {SP, NL}

Quotes == {DQ, SQ}

Digits == {"0", "1", "2", "3", "4", "5", "6", "7", "8", "9"}

DigitValue == [c \in Digits |->
  CASE c = "0" -> 0 [] c = "1" -> 1 [] c = "2" -> 2 [] c = "3" -> 3
    [] c = "4" -> 4 [] c = "5" -> 5 [] c = "6" -> 6 [] c = "7" -> 7
    [] c = "8" -> 8 [] c = "9" -> 9]

\* str.lower() on one character (the upper-case letters the inputs use).
LowerChar(c) ==
  CASE c = "M" -> "m" [] c = "E" -> "e" [] c = "S" -> "s" [] c = "A" -> "a"
    [] c = "G" -> "g" [] c = "F" -> "f" [] c = "O" -> "o" [] c = "T" -> "t"
    [] c = "R" -> "r" [] OTHER -> c

Lower(s) == [i \in 1..Len(s) |-> LowerChar(s[i])]

K_message == <<"m", "e", "s", "s", "a", "g", "e">>

K_channel == <<"c", "h", "a", "n", "n", "e", "l">>

K_link == <<"l", "i", "n", "k">>

K_link_text == <<"l", "i", "n", "k", "_", "t", "e", "x", "t">>

K_thumbnail == <<"t", "h", "u", "m", "b", "n", "a", "i", "l">>

K_footer == <<"f", "o", "o", "t", "e", "r">>

\* The marker that precedes the link line: "\n\n**[".
Marker == <<NL, NL, "*", "*", "[">>

\* f"\n\n**[{text}]({target})**"
LinkLine(text, target) == Marker \o text \o <<"]", "(">> \o target \o <<")", "*", "*">>

\* The least index at which sub occurs in s, or 0.
Find(s, sub) ==
  LET hits == {i \in 1..(Len(s) - Len(sub) + 1) : SubSeq(s, i, i + Len(sub) - 1) = sub}
  IN  IF hits = {} THEN 0 ELSE CHOOSE i \in hits : \A j \in hits : i <= j

\* s.split(sep)[0]: the part of s before the first sep, or all of s.
SplitFirst(s, sep) ==
  IF Find(s, sep) = 0 THEN s ELSE SubSeq(s, 1, Find(s, sep) - 1)

\* s.split('=', 1) of a token that holds an '=': <<key, value>>.
SplitEq(s) ==
  <<SubSeq(s, 1, Find(s, <<EQ>>) - 1), SubSeq(s, Find(s, <<EQ>>) + 1, Len(s))>>

----------------------------------------------------------------------------
(* shlex.split (POSIX mode, whitespace_split, no comments), line 48 *)

\* The least index from i on at which s holds a character of set, or
\* Len(s) + 1.
NextOf(s, i, set) ==
  LET hits == {j \in i..Len(s) : s[j] \in set}
  IN  IF hits = {} THEN Len(s) + 1 ELSE CHOOSE j \in hits : \A k \in hits : j <= k

\* What a finished token adds to the tokens: '' counts only if quoted.
Emit(out, tok, quoted) == IF tok /= <<>> \/ quoted THEN Append(out, tok) ELSE out

\* shlex.read_token from index i on, a run of ordinary characters at a
\* time.  st is the lexer state: "a" in or between words, a quote character
\* inside that quote; tok is the token so far, quoted whether it held a
\* quote.  The result is None for ValueError (no closing quotation, no
\* escaped character), else Some(tokens).
RECURSIVE Shlex(_, _, _, _, _, _)
Shlex(s, i, st, tok, quoted, out) ==
  IF st = "a"
  THEN LET j == NextOf(s, i, Whitespace \cup Quotes \cup {BS})
           word == tok \o SubSeq(s, i, j - 1)
       IN  IF j > Len(s) THEN Some(Emit(out, word, quoted))
           ELSE IF s[j] \in Whitespace
           THEN Shlex(s, j + 1, "a", <<>>, FALSE, Emit(out, word, quoted))
           ELSE IF s[j] \in Quotes
           THEN Shlex(s, j + 1, s[j], word, TRUE, out)
           ELSE IF j + 1 > Len(s) THEN None
           ELSE Shlex(s, j + 2, "a", Append(word, s[j + 1]), quoted, out)
  ELSE LET j == NextOf(s, i, IF st = DQ THEN {DQ, BS} ELSE {st})
           word == tok \o SubSeq(s, i, j - 1)
       IN  IF j > Len(s) THEN None
           ELSE IF s[j] = st THEN Shlex(s, j + 1, "a", word, TRUE, out)
           ELSE IF j + 1 > Len(s) THEN None
           ELSE Shlex(s, j + 2, st,
                      IF s[j + 1] \in {BS, st}
                      THEN Append(word, s[j + 1]) ELSE word \o <<BS, s[j + 1]>>,
                      TRUE, out)

shlex_split(s) == Shlex(s, 1, "a", <<>>, FALSE, <<>>)

\* {key.lower(): value for key, value in (arg.split('=', 1) ...) if '=' in arg}
RECURSIVE DictOf(_, _, _)
DictOf(toks, i, d) ==
  IF i > Len(toks) THEN d
  ELSE IF Find(toks[i], <<EQ>>) = 0 THEN DictOf(toks, i + 1, d)
  ELSE DictOf(toks, i + 1, Put(d, Lower(SplitEq(toks[i])[1]), SplitEq(toks[i])[2]))

\* parse_arguments computed on one argument string.
ParseString(s) ==
  IF shlex_split(s) = None THEN None
  ELSE Some(DictOf(shlex_split(s)[1], 1, EmptyDict))

----------------------------------------------------------------------------
(* The channel mention, line 88 *)

RECURSIVE IntOf(_)
\* int(digits) of a non-empty run of decimal digits.
IntOf(ds) ==
  IF Len(ds) = 0 THEN 0
  ELSE 10 * IntOf(SubSeq(ds, 1, Len(ds) - 1)) + DigitValue[ds[Len(ds)]]

\* The end of the maximal run of digits of s that starts at index i
\* (i - 1 when s[i] is no digit).
RECURSIVE DigitRunEnd(_, _)
DigitRunEnd(s, i) ==
  IF i <= Len(s) /\ s[i] \in Digits THEN DigitRunEnd(s, i + 1) ELSE i - 1

\* Whether r'<#(\d+)>' matches s at index i.  \d+ is greedy and '>' is no
\* digit, so a match takes the maximal run of digits.
MentionAt(s, i) ==
  /\ i + 3 <= Len(s)
  /\ s[i] = "<"
  /\ s[i + 1] = "#"
  /\ DigitRunEnd(s, i + 2) >= i + 2
  /\ DigitRunEnd(s, i + 2) + 1 <= Len(s)
  /\ s[DigitRunEnd(s, i + 2) + 1] = ">"

\* re.search(r'<#(\d+)>', s): group 1 of the leftmost match, or None.
SearchMention(s) ==
  LET hits == {i \in 1..Len(s) : MentionAt(s, i)}
      first == CHOOSE i \in hits : \A j \in hits : i <= j
  IN  IF hits = {} THEN None
      ELSE Some(SubSeq(s, first + 2, DigitRunEnd(s, first + 2)))

----------------------------------------------------------------------------
(* The platform *)

Bot == "leise"

User == "user"

\* The channels bot.get_channel knows, by id.
KnownChannels == {1, 2}

\* ctx.channel: the channel the command was issued in.
OriginChannel == CHOOSE c \in KnownChannels : \A d \in KnownChannels : c <= d

\* bot.get_channel(id): the channel, or None.
get_channel(id) == IF id \in KnownChannels THEN Some(id) ELSE None

\* What a send or an edit hands to the platform: the text content, and the
\* embed or None.
PlainRender(text) == [content |-> text, embed |-> None]

EmbedRender(description, thumbnail, footer) ==
  [content |-> <<>>,
   embed |-> Some([description |-> description, thumbnail |-> thumbnail,
                   footer |-> footer])]

MessageOf(channel, author, render) ==
  [channel |-> channel, author |-> author, content |-> render.content,
   embed |-> render.embed]

\* A message somebody else wrote (the command message itself is one).
ForeignMessage ==
  MessageOf(OriginChannel, User, PlainRender(<<"h", "e", "y">>))

\* The platform after the bot sent a message.  The model keeps, beside the
\* foreign message, the message the bot sent last: a later send takes its
\* place (and its id), an earlier one is no longer edited.
Deliver(msgs, channel, render) ==
  IF Len(msgs) = 1
  THEN Append(msgs, MessageOf(channel, Bot, render))
  ELSE [msgs EXCEPT ![Len(msgs)] = MessageOf(channel, Bot, render)]

\* Mutant of ApplyEdit: an edit that hands over embed alone, so that the old
\* content stays.
ApplyEditKeepContent(msg, render) == [msg EXCEPT !.embed = render.embed]

\* message.edit(content=..., embed=...): both are replaced.
ApplyEdit(msg, render) ==
  [msg EXCEPT !.content = render.content, !.embed = render.embed]

\* Whether channel.fetch_message(id) finds a message.
Fetchable(msgs, channel, id) ==
  /\ id \in 1..Len(msgs)
  /\ msgs[id].channel = channel

----------------------------------------------------------------------------
(* The render engine *)

\* Mutant of AnyEmbedOption: the test asks whether a key is present, not
\* whether its value is truthy.
AnyEmbedOptionByKey(fields) ==
  DOMAIN fields \cap {K_link, K_link_text, K_thumbnail, K_footer} /= {}

\* any([link, link_text, thumbnail, footer]), lines 103 and 184
AnyEmbedOption(fields) ==
  \E k \in {K_link, K_link_text, K_thumbnail, K_footer} : Truthy(Get(fields, k))

\* The description: the base text and the link line, lines 107-111, 188-192.
Description(base, fields) ==
  IF Truthy(Get(fields, K_link)) /\ Truthy(Get(fields, K_link_text))
  THEN base \o LinkLine(fields[K_link_text], fields[K_link])
  ELSE IF Truthy(Get(fields, K_link))
  THEN base \o LinkLine(fields[K_link], fields[K_link])
  ELSE base

\* thumbnail / footer of the create embed: set only if truthy, lines 115-118.
IfTruthy(o) == IF Truthy(o) THEN o ELSE None

\* The render of a create whose message is present, lines 102-118.
CreateRender(fields) ==
  IF ~AnyEmbedOption(fields)
  THEN PlainRender(fields[K_message])
  ELSE EmbedRender(Description(fields[K_message], fields),
                   IfTruthy(Get(fields, K_thumbnail)),
                   IfTruthy(Get(fields, K_footer)))

\* new_content of an edit, lines 170-176.
NewContent(fields, original) ==
  IF Get(fields, K_message) /= None THEN fields[K_message]
  ELSE IF original.embed /= None
  THEN SplitFirst(original.embed[1].description, Marker)
  ELSE original.content

\* The new value if truthy, else the old embed's value, lines 197-205.
Inherit(new, original, old) ==
  IF Truthy(new) THEN new
  ELSE IF original.embed /= None /\ Truthy(old) THEN old
  ELSE None

OldThumbnail(original) ==
  IF original.embed = None THEN None ELSE original.embed[1].thumbnail

OldFooter(original) ==
  IF original.embed = None THEN None ELSE original.embed[1].footer

\* The render of an edit from the message that was fetched, lines 169-207.
EditRender(fields, original) ==
  IF ~AnyEmbedOption(fields)
  THEN PlainRender(NewContent(fields, original))
  ELSE EmbedRender(Description(NewContent(fields, original), fields),
                   Inherit(Get(fields, K_thumbnail), original, OldThumbnail(original)),
                   Inherit(Get(fields, K_footer), original, OldFooter(original)))

----------------------------------------------------------------------------
(* Inputs: the argument strings and message links of the invocations *)

\* The largest channel id a mention of the inputs names.
MaxChannelId == 3

\* The number of edits that follow one create the history counts.
MaxEdits == 2

Hi == <<"h", "i">>

Yo == <<"y", "o">>

\* A text that holds the marker itself: "a\n\n**[b".
Marked == <<"a">> \o Marker \o <<"b">>

Url == <<"u">>

Label == <<"X">>

Thumb == <<"t">>

Foot == <<"f">>

\* str(n) of a natural number.
RECURSIVE Decimal(_)
Decimal(n) ==
  LET d == CHOOSE c \in Digits : DigitValue[c] = n % 10
  IN  IF n < 10 THEN <<d>> ELSE Append(Decimal(n \div 10), d)

\* The mention of channel n: "<#n>".
Mention(n) == <<"<", "#">> \o Decimal(n) \o <<">">>

\* key="value"
Tok(k, v) == k \o <<EQ, DQ>> \o v \o <<DQ>>

Part(k, o) == IF o = None THEN <<>> ELSE Tok(k, o[1])

Join(a, b) == IF a = <<>> THEN b ELSE IF b = <<>> THEN a ELSE a \o <<SP>> \o b

\* The argument string that holds the given optional values.
ArgOf(m, c, l, lt, t, f) ==
  Join(Part(K_channel, c), Join(Part(K_message, m), Join(Part(K_link_text, lt),
    Join(Part(K_link, l), Join(Part(K_thumbnail, t), Part(K_footer, f))))))

EmbedChoices ==
  {None, Some(Url)} \X {None, Some(Label)} \X {None, Some(Thumb)}
    \X {None, Some(<<>>), Some(Foot)}

ChannelValues ==
  {Some(Mention(n)) : n \in 1..MaxChannelId}
    \cup {Some(<<"#", "g">>), Some(<<"x">> \o Mention(2)), Some(Mention(12)),
          Some(<<"<", "#", ">">>)}

\* Argument strings no ArgOf builds: an open quote, a word without '=', an
\* upper-case key, a key given twice, an '=' in a value, single quotes.
OddCreateArgs ==
  { K_message \o <<EQ, DQ>> \o Hi,
    Hi,
    Join(Hi, Tok(K_message, Hi)),
    <<"M", "E", "S", "S", "A", "G", "E", EQ>> \o Hi,
    Join(Tok(K_message, Hi), Tok(K_message, Yo)),
    Tok(K_message, <<"a", EQ, "b">>),
    K_message \o <<EQ, SQ>> \o Hi \o <<SQ>>,
    Join(Tok(K_channel, <<"#", "g">>), K_message \o <<EQ, DQ>> \o Hi) }

OddEditArgs ==
  { K_footer \o <<EQ, DQ>> \o Foot,
    Hi,
    <<"F", "O", "O", "T", "E", "R", EQ>> \o Foot,
    Join(Tok(K_footer, Foot), Tok(K_footer, Yo)) }

CreateArgs ==
  {ArgOf(m, None, e[1], e[2], e[3], e[4]) :
     m \in {None, Some(<<>>), Some(Hi), Some(Marked)}, e \in EmbedChoices}
  \cup {ArgOf(m, c, None, lt, None, f) :
          m \in {None, Some(Hi)}, c \in ChannelValues,
          lt \in {None, Some(Label)}, f \in {None, Some(Foot)}}
  \cup OddCreateArgs

EditArgs ==
  {ArgOf(m, None, e[1], e[2], e[3], e[4]) :
     m \in {None, Some(Yo)}, e \in EmbedChoices}
  \cup OddEditArgs

\* args as the command receives it: None when nothing follows the command.
ArgInput(s) == IF s = <<>> THEN None ELSE Some(s)

\* parse_arguments, lines 44-52, tabulated over the argument strings above
\* (@@ makes the table a value that is computed once).
ParseTable == [s \in CreateArgs \cup EditArgs |-> ParseString(s)] @@ EmptyDict

parse_arguments(s) == ParseTable[s]

\* A message link: None, or whether '/channels/\d+/(\d+)/(\d+)' matches it
\* and the two ids matched.
LinkTo(channel, message) ==
  Some([match |-> TRUE, channel |-> channel, message |-> message])

NoMatchLink == Some([match |-> FALSE, channel |-> 0, message |-> 0])

\* Links to the foreign message and to the bot's message, in either channel.
MessageLinks == {LinkTo(c, m) : c \in KnownChannels, m \in 1..2}

\* No link, a malformed link, an unknown channel, an unknown message.
OtherLinks ==
  {None, NoMatchLink, LinkTo(MaxChannelId, 1), LinkTo(OriginChannel, 3)}

EditInputs ==
  (MessageLinks \X {ArgInput(s) : s \in EditArgs})
    \cup (OtherLinks \X {None, Some(Tok(K_footer, Foot))})
    \cup {<<LinkTo(OriginChannel, 1), None>>}

----------------------------------------------------------------------------
(* send_custom_message, lines 73-128 *)

\* Mutant of CreateCheck: the channel is resolved before message is looked at.
CreateCheckChannelFirst(args) ==
  IF ~Truthy(args) THEN "NoArguments"
  ELSE IF parse_arguments(args[1]) = None THEN "BadQuotes"
  ELSE LET fields == parse_arguments(args[1])[1] IN
    IF /\ K_channel \in DOMAIN fields
       /\ SearchMention(fields[K_channel]) = None
    THEN "InvalidChannelFormat"
    ELSE IF /\ K_channel \in DOMAIN fields
            /\ get_channel(IntOf(SearchMention(fields[K_channel])[1])) = None
    THEN "ChannelNotFound"
    ELSE IF ~Truthy(Get(fields, K_message)) THEN "MissingMessage"
    ELSE "ok"

\* The validations of the create command in the order of the code: the
\* response of the first one that fails, or "ok".  Lines 74-95.
CreateCheck(args) ==
  IF ~Truthy(args) THEN "NoArguments"
  ELSE IF parse_arguments(args[1]) = None THEN "BadQuotes"
  ELSE LET fields == parse_arguments(args[1])[1] IN
    IF ~Truthy(Get(fields, K_message)) THEN "MissingMessage"
    ELSE IF K_channel \notin DOMAIN fields THEN "ok"
    ELSE IF SearchMention(fields[K_channel]) = None THEN "InvalidChannelFormat"
    ELSE IF get_channel(IntOf(SearchMention(fields[K_channel])[1])) = None
    THEN "ChannelNotFound"
    ELSE "ok"

\* target_channel once the validations passed, lines 85-91.
TargetChannel(fields) ==
  IF K_channel \notin DOMAIN fields THEN OriginChannel
  ELSE get_channel(IntOf(SearchMention(fields[K_channel])[1]))[1]

\* What the create command answers after the send: nothing or the
\* confirmation when it went through (lines 127-128); the error when the embed
\* send failed (lines 122-125).  The plain send has no handler (line 104).
CreateResponse(render, target, result) ==
  IF result = "ok"
  THEN IF target /= OriginChannel THEN <<"SentTo">> ELSE <<>>
  ELSE IF render.embed = None THEN <<>>
  ELSE IF result = "Forbidden" THEN <<"SendForbidden">>
  ELSE <<"SendFailed">>

\* The exception that leaves the create command unhandled, or "none".
CreateRaised(render, result) ==
  IF result /= "ok" /\ render.embed = None THEN result ELSE "none"

----------------------------------------------------------------------------
(* edit_message, lines 139-209 *)

\* The validations before the fetch, lines 140-153.
EditCheck(link, args) ==
  IF link = None \/ ~Truthy(args) THEN "EditUsage"
  ELSE IF ~link[1].match THEN "InvalidLink"
  ELSE IF get_channel(link[1].channel) = None THEN "ChannelMissing"
  ELSE "ok"

\* Mutant of FetchedCheck: the arguments are parsed before the author is
\* looked at.
FetchedCheckParseFirst(args, original) ==
  IF parse_arguments(args[1]) = None THEN "BadQuotes"
  ELSE IF original.author /= Bot THEN "NotAuthored"
  ELSE "ok"

\* The validations after the fetch, lines 161-167.
FetchedCheck(args, original) ==
  IF original.author /= Bot THEN "NotAuthored"
  ELSE IF parse_arguments(args[1]) = None THEN "BadQuotes"
  ELSE "ok"

\* What the fetch can answer: the message, or one of discord's errors.
FetchResults(found) ==
  IF found THEN {"ok", "Forbidden", "HTTPException"}
  ELSE {"NotFound", "Forbidden", "HTTPException"}

\* The response to a failed fetch, lines 156-159; HTTPException has no
\* handler.
FetchResponse(result) ==
  IF result = "NotFound" THEN <<"MessageNotFound">>
  ELSE IF result = "Forbidden" THEN <<"FetchForbidden">>
  ELSE <<>>

SendResults == {"ok", "Forbidden", "HTTPException"}

----------------------------------------------------------------------------
(* State *)

Procs == {1, 2}

\* An invocation: the command, where it stands (idle, fetch: awaiting
\* fetch_message, write: awaiting message.edit, done), its inputs, the message
\* it fetched, the render it hands to edit, its responses to the user
\* (ctx.send), its calls of send and edit with their results, and the
\* exception that ended it unhandled.
Idle ==
  [cmd |-> "none", pc |-> "idle", args |-> None, link |-> None, snap |-> None,
   out |-> None, resp |-> <<>>, calls |-> <<>>, raised |-> "none"]

Call(cap, target, render, result) ==
  [cap |-> cap, target |-> target, render |-> render, result |-> result]

\* History of the bot's message: None, or the message text of the create
\* that rendered it with a link line and the number of edits since, each of
\* which omitted message, link and link_text and rendered an embed.
HistAfterCreate(fields, render) ==
  IF render.embed /= None /\ Truthy(Get(fields, K_link))
  THEN Some([m |-> fields[K_message], edits |-> 0])
  ELSE None

HistAfterEdit(h, fields, render) ==
  IF /\ h /= None
     /\ render.embed /= None
     /\ DOMAIN fields \cap {K_message, K_link, K_link_text} = {}
  THEN Some([h[1] EXCEPT !.edits = IF @ < MaxEdits THEN @ + 1 ELSE @])
  ELSE None

Init ==
  /\ messages = <<ForeignMessage>>
  /\ inv = [p \in Procs |-> Idle]
  /\ hist = None
  /\ lastWriter = 0

\* The create command, whole: its awaits read nothing another invocation
\* writes.  result is what the send answers.
Create(p, args, result) ==
  /\ inv[p].pc = "idle"
  /\ IF CreateCheck(args) /= "ok"
     THEN /\ result = "ok"
          /\ inv' = [inv EXCEPT ![p] =
                [Idle EXCEPT !.cmd = "create", !.pc = "done", !.args = args,
                             !.resp = <<CreateCheck(args)>>]]
          /\ UNCHANGED <<messages, hist, lastWriter>>
     ELSE LET fields == parse_arguments(args[1])[1]
              render == CreateRender(fields)
              target == TargetChannel(fields)
          IN  /\ inv' = [inv EXCEPT ![p] =
                    [Idle EXCEPT !.cmd = "create", !.pc = "done", !.args = args,
                                 !.out = Some(render),
                                 !.calls = <<Call("send", target, render, result)>>,
                                 !.resp = CreateResponse(render, target, result),
                                 !.raised = CreateRaised(render, result)]]
              /\ IF result = "ok"
                 THEN /\ messages' = Deliver(messages, target, render)
                      /\ hist' = HistAfterCreate(fields, render)
                      /\ lastWriter' = 0
                 ELSE UNCHANGED <<messages, hist, lastWriter>>

\* The edit command up to its first await, lines 139-155.
EditBegin(p, link, args) ==
  /\ inv[p].pc = "idle"
  /\ inv' = [inv EXCEPT ![p] =
        IF EditCheck(link, args) /= "ok"
        THEN [Idle EXCEPT !.cmd = "edit", !.pc = "done", !.args = args,
                          !.link = link, !.resp = <<EditCheck(link, args)>>]
        ELSE [Idle EXCEPT !.cmd = "edit", !.pc = "fetch", !.args = args,
                          !.link = link]]
  /\ UNCHANGED <<messages, hist, lastWriter>>

\* fetch_message answers; the command runs on to its next await, the edit
\* (lines 155-207), or ends.
EditFetched(p, result) ==
  /\ inv[p].pc = "fetch"
  /\ LET me == inv[p]
         channel == me.link[1].channel
         id == me.link[1].message
     IN  /\ result \in FetchResults(Fetchable(messages, channel, id))
         /\ inv' = [inv EXCEPT ![p] =
               IF result /= "ok"
               THEN [me EXCEPT !.pc = "done", !.resp = FetchResponse(result),
                               !.raised = IF result = "HTTPException"
                                          THEN result ELSE "none"]
               ELSE IF FetchedCheck(me.args, messages[id]) /= "ok"
               THEN [me EXCEPT !.pc = "done", !.snap = Some(messages[id]),
                               !.resp = <<FetchedCheck(me.args, messages[id])>>]
               ELSE [me EXCEPT !.pc = "write", !.snap = Some(messages[id]),
                               !.out = Some(EditRender(
                                   parse_arguments(me.args[1])[1], messages[id]))]]
  /\ UNCHANGED <<messages, hist, lastWriter>>

\* message.edit answers, lines 185/207-209: no handler surrounds it.
EditWritten(p, result) ==
  /\ inv[p].pc = "write"
  /\ LET id == inv[p].link[1].message
         render == inv[p].out[1]
         fields == parse_arguments(inv[p].args[1])[1]
     IN  /\ inv' = [inv EXCEPT ![p] =
               [inv[p] EXCEPT !.pc = "done",
                         !.calls = <<Call("edit", id, render, result)>>,
                         !.resp = IF result = "ok" THEN <<"Edited">> ELSE <<>>,
                         !.raised = IF result = "ok" THEN "none" ELSE result]]
         /\ IF result = "ok"
            THEN /\ messages' = [messages EXCEPT ![id] = ApplyEdit(@, render)]
                 /\ hist' = HistAfterEdit(hist, fields, render)
                 /\ lastWriter' = p
            ELSE UNCHANGED <<messages, hist, lastWriter>>

\* The handler has returned; the runtime takes the next command.
Return(p) ==
  /\ inv[p].pc = "done"
  /\ inv' = [inv EXCEPT ![p] = Idle]
  /\ UNCHANGED <<messages, hist, lastWriter>>

\* The commands with their inputs: any argument string, any message link,
\* any answer of the platform.
CreateCommand(p) ==
  /\ inv[p].pc = "idle"
  /\ \E s \in CreateArgs, r \in SendResults : Create(p, ArgInput(s), r)

EditCommand(p) ==
  /\ inv[p].pc = "idle"
  /\ \E e \in EditInputs : EditBegin(p, e[1], e[2])

FetchAnswer(p) ==
  /\ inv[p].pc = "fetch"
  /\ \E r \in FetchResults(TRUE) \cup FetchResults(FALSE) : EditFetched(p, r)

EditAnswer(p) ==
  /\ inv[p].pc = "write"
  /\ \E r \in SendResults : EditWritten(p, r)

\* The single-operator call pattern: one invocation at a time.
Operator == CHOOSE q \in Procs : \A r \in Procs : q <= r

Next ==
  \/ CreateCommand(Operator)
  \/ EditCommand(Operator)
  \/ FetchAnswer(Operator)
  \/ EditAnswer(Operator)
  \/ Return(Operator)

Spec == Init /\ [][Next]_vars

----------------------------------------------------------------------------
(* Two edit commands racing on one message of the bot *)

\* What the bot's message holds when the two edits arrive: an embed with a
\* link line and a thumbnail, or a plain text.
RaceStart ==
  { EmbedRender(Hi \o LinkLine(Label, Url), Some(Thumb), None),
    PlainRender(Hi) }

InitRace ==
  /\ \E r \in RaceStart : messages = Deliver(<<ForeignMessage>>, OriginChannel, r)
  /\ inv = [p \in Procs |-> Idle]
  /\ hist = None
  /\ lastWriter = 0

\* An edit command on the bot's message.
RaceCommand(p) ==
  /\ inv[p].pc = "idle"
  /\ \E s \in EditArgs :
       EditBegin(p, LinkTo(OriginChannel, Len(messages)), ArgInput(s))

\* Each of the two invocations runs once; their steps interleave at the
\* awaits.
NextRace ==
  \E p \in Procs :
    \/ RaceCommand(p)
    \/ FetchAnswer(p)
    \/ EditAnswer(p)

SpecRace == InitRace /\ [][NextRace]_vars

----------------------------------------------------------------------------
(* Properties *)

Done(p) == inv[p].pc = "done"

\* The invocation's argument string parsed to a field map.
Parsed(p) == Truthy(inv[p].args) /\ parse_arguments(inv[p].args[1]) /= None

FieldsOf(p) == parse_arguments(inv[p].args[1])[1]

\* The key is in the field map with a non-empty value.
Supplied(p, k) == k \in DOMAIN FieldsOf(p) /\ FieldsOf(p)[k] /= <<>>

\* The invocation passed its validations and rendered.
Rendered(p) == inv[p].out /= None

IsPrefix(a, b) == Len(a) <= Len(b) /\ SubSeq(b, 1, Len(a)) = a

Failures == {"Forbidden", "HTTPException"}

\* The value is exactly a mention: '<#', one or more digits, '>'.
ExactMention(s) ==
  /\ Len(s) >= 4
  /\ s[1] = "<"
  /\ s[2] = "#"
  /\ s[Len(s)] = ">"
  /\ \A i \in 3..(Len(s) - 1) : s[i] \in Digits

\* The digits of an exact mention.
MentionDigits(s) == SubSeq(s, 3, Len(s) - 1)

\* C1: a create or an edit whose field map holds a non-empty link_text and no
\* link (and that passes every other validation) ends with the
\* DanglingLinkText response and calls neither send nor edit.
C1_DanglingLinkTextRejected ==
  \A p \in Procs :
    (/\ Done(p)
     /\ Rendered(p)
     /\ Supplied(p, K_link_text)
     /\ K_link \notin DOMAIN FieldsOf(p))
    => /\ inv[p].resp = <<"DanglingLinkText">>
       /\ inv[p].calls = <<>>

\* C2: an edit that renders gives a plain text only when the message it
\* fetched was no embed and the edit supplies none of link, link_text,
\* thumbnail, footer; in every other case it gives an embed.
C2_EditPlainOnlyWithoutEmbed ==
  \A p \in Procs :
    (inv[p].cmd = "edit" /\ Rendered(p))
    => ((inv[p].out[1].embed = None)
         <=> (/\ inv[p].snap[1].embed = None
              /\ ~Supplied(p, K_link)
              /\ ~Supplied(p, K_link_text)
              /\ ~Supplied(p, K_thumbnail)
              /\ ~Supplied(p, K_footer)))

\* The message an edit invocation wrote to, as it is now.
Edited(p) == messages[inv[p].link[1].message]

\* The edit of invocation p went through.
EditDone(p) ==
  /\ inv[p].cmd = "edit"
  /\ Done(p)
  /\ inv[p].calls /= <<>>
  /\ inv[p].calls[1].result = "ok"

\* C3: after a successful edit of an embed that carried a thumbnail
\* (a footer), the message still carries it if the edit omits the field, and
\* carries the new value if the edit supplies one.
C3_ThumbnailAndFooterKept ==
  \A p \in Procs :
    (EditDone(p) /\ inv[p].snap[1].embed /= None)
    => /\ (/\ inv[p].snap[1].embed[1].thumbnail /= None
           /\ K_thumbnail \notin DOMAIN FieldsOf(p))
          => /\ Edited(p).embed /= None
             /\ Edited(p).embed[1].thumbnail = inv[p].snap[1].embed[1].thumbnail
       /\ (/\ inv[p].snap[1].embed[1].footer /= None
           /\ K_footer \notin DOMAIN FieldsOf(p))
          => /\ Edited(p).embed /= None
             /\ Edited(p).embed[1].footer = inv[p].snap[1].embed[1].footer
       /\ Supplied(p, K_thumbnail)
          => /\ Edited(p).embed /= None
             /\ Edited(p).embed[1].thumbnail = Some(FieldsOf(p)[K_thumbnail])
       /\ Supplied(p, K_footer)
          => /\ Edited(p).embed /= None
             /\ Edited(p).embed[1].footer = Some(FieldsOf(p)[K_footer])

\* C4: an invocation whose send or edit failed with Forbidden or a delivery
\* error ends with exactly one response, an error that names the failure,
\* and with no confirmation.
C4_FailureIsReported ==
  \A p \in Procs :
    (/\ Done(p)
     /\ inv[p].calls /= <<>>
     /\ inv[p].calls[1].result \in Failures)
    => /\ Len(inv[p].resp) = 1
       /\ inv[p].resp[1] \in {"SendForbidden", "SendFailed", "EditForbidden", "EditFailed"}

\* A create invocation that rendered.
Created(p) == inv[p].cmd = "create" /\ Done(p) /\ Rendered(p)

\* C5 as stated: the create render is PlainText(message) exactly if none of
\* the keys link, link_text, thumbnail, footer is in the field map, and else
\* an embed whose description starts with message.
C5_PlainIffNoKey ==
  \A p \in Procs :
    Created(p)
    => IF DOMAIN FieldsOf(p) \cap {K_link, K_link_text, K_thumbnail, K_footer} = {}
       THEN inv[p].out[1] = PlainRender(FieldsOf(p)[K_message])
       ELSE /\ inv[p].out[1].embed /= None
            /\ IsPrefix(FieldsOf(p)[K_message], inv[p].out[1].embed[1].description)

\* C5 amended: the create render is PlainText(message) exactly if none of
\* link, link_text, thumbnail, footer has a non-empty value, and else an
\* embed whose description starts with message.
C5_PlainIffNoValue ==
  \A p \in Procs :
    Created(p)
    => IF /\ ~Supplied(p, K_link)
          /\ ~Supplied(p, K_link_text)
          /\ ~Supplied(p, K_thumbnail)
          /\ ~Supplied(p, K_footer)
       THEN inv[p].out[1] = PlainRender(FieldsOf(p)[K_message])
       ELSE /\ inv[p].out[1].embed /= None
            /\ inv[p].out[1].content = <<>>
            /\ IsPrefix(FieldsOf(p)[K_message], inv[p].out[1].embed[1].description)

\* A create with the empty footer of footer="" sent a plain text, and one
\* with a footer sent an embed.
C5_Witness ==
  \E p \in Procs :
    /\ Created(p)
    /\ K_footer \in DOMAIN FieldsOf(p)
    /\ FieldsOf(p)[K_footer] = <<>>
    /\ ~Supplied(p, K_link_text)
    /\ inv[p].calls[1].result = "ok"
    /\ messages[Len(messages)].content = FieldsOf(p)[K_message]
    /\ messages[Len(messages)].embed = None

\* A create whose argument string parsed and holds a non-empty message.
CreateWithMessage(p) ==
  /\ inv[p].cmd = "create"
  /\ Done(p)
  /\ Parsed(p)
  /\ Supplied(p, K_message)

\* The invocation called send once, on this channel.
SentOnceTo(p, channel) ==
  /\ Len(inv[p].calls) = 1
  /\ inv[p].calls[1].cap = "send"
  /\ inv[p].calls[1].target = channel

\* C6: a create delivers to the origin channel when channel is absent, to
\* the looked-up channel when channel is exactly a mention the lookup
\* resolves; a value of another shape gives InvalidChannelFormat, a mention
\* the lookup misses gives ChannelNotFound, and then nothing is sent.
C6_ExactMentionOnly ==
  \A p \in Procs :
    CreateWithMessage(p)
    => IF K_channel \notin DOMAIN FieldsOf(p)
       THEN SentOnceTo(p, OriginChannel)
       ELSE IF ~ExactMention(FieldsOf(p)[K_channel])
       THEN inv[p].resp = <<"InvalidChannelFormat">> /\ inv[p].calls = <<>>
       ELSE IF IntOf(MentionDigits(FieldsOf(p)[K_channel])) \in KnownChannels
       THEN SentOnceTo(p, IntOf(MentionDigits(FieldsOf(p)[K_channel])))
       ELSE inv[p].resp = <<"ChannelNotFound">> /\ inv[p].calls = <<>>

\* C7: a create whose field map has no message key ends with the
\* MissingMessage response and never calls send, whatever else it holds.
C7_MissingMessage ==
  \A p \in Procs :
    (/\ inv[p].cmd = "create"
     /\ Done(p)
     /\ Parsed(p)
     /\ K_message \notin DOMAIN FieldsOf(p))
    => /\ inv[p].resp = <<"MissingMessage">>
       /\ inv[p].calls = <<>>
       /\ inv[p].raised = "none"

\* A create without message whose channel value is no mention ended with
\* MissingMessage.
C7_Witness ==
  \E p \in Procs :
    /\ inv[p].cmd = "create"
    /\ Done(p)
    /\ Parsed(p)
    /\ K_message \notin DOMAIN FieldsOf(p)
    /\ K_channel \in DOMAIN FieldsOf(p)
    /\ SearchMention(FieldsOf(p)[K_channel]) = None
    /\ inv[p].resp = <<"MissingMessage">>

\* C8: an edit command calls edit only on a message the bot wrote; when the
\* fetched message has another author it ends with the NotAuthored response
\* and calls nothing, whatever the argument string, and the foreign message
\* stays as it was.
C8_OnlyOwnMessages ==
  /\ messages[1] = ForeignMessage
  /\ \A p \in Procs :
       inv[p].cmd = "edit"
       => /\ \A i \in 1..Len(inv[p].calls) :
               /\ inv[p].snap /= None
               /\ inv[p].snap[1].author = Bot
               /\ messages[inv[p].calls[i].target].author = Bot
          /\ (inv[p].snap /= None /\ inv[p].snap[1].author /= Bot)
             => /\ Done(p)
                /\ inv[p].resp = <<"NotAuthored">>
                /\ inv[p].calls = <<>>
                /\ inv[p].out = None

\* An edit of the foreign message with an open quote in its arguments ended
\* with NotAuthored.
C8_Witness ==
  \E p \in Procs :
    /\ inv[p].cmd = "edit"
    /\ Done(p)
    /\ inv[p].snap = Some(ForeignMessage)
    /\ parse_arguments(inv[p].args[1]) = None
    /\ inv[p].resp = <<"NotAuthored">>

\* C9: after a create that rendered message m with a link line, edits that
\* omit message, link and link_text and render an embed leave the
\* description equal to m.
C9_BaseTextRecovered ==
  (hist /= None /\ hist[1].edits >= 1)
  => /\ messages[Len(messages)].embed /= None
     /\ messages[Len(messages)].embed[1].description = hist[1].m

\* C10: of two edits racing on the bot's message each calls edit at most
\* once, with the render computed from the message it fetched, and the
\* message holds the render of the invocation that wrote last.
C10_LastWriteWins ==
  /\ \A p \in Procs :
       /\ Len(inv[p].calls) <= 1
       /\ Rendered(p) => inv[p].out[1] = EditRender(FieldsOf(p), inv[p].snap[1])
       /\ inv[p].calls /= <<>> => inv[p].calls[1].render = inv[p].out[1]
  /\ lastWriter /= 0
     => /\ inv[lastWriter].calls[1].result = "ok"
        /\ messages[Len(messages)].content = inv[lastWriter].out[1].content
        /\ messages[Len(messages)].embed = inv[lastWriter].out[1].embed
        /\ messages[Len(messages)].author = Bot

\* Both edits fetched the embed before either wrote; the first set only a
\* footer, the second, written last, only the thumbnail: the footer is gone.
C10_Witness ==
  \E p, q \in Procs :
    /\ p /= q
    /\ EditDone(p)
    /\ EditDone(q)
    /\ lastWriter = q
    /\ inv[p].snap = inv[q].snap
    /\ inv[p].snap[1].embed /= None
    /\ DOMAIN FieldsOf(p) = {K_footer}
    /\ Supplied(p, K_footer)
    /\ DOMAIN FieldsOf(q) = {K_thumbnail}
    /\ Supplied(q, K_thumbnail)
    /\ messages[Len(messages)].embed[1].footer = None

====
